---- MODULE Spec2Model ----
(***************************************************************************)
(* Model of src/debugger.py: decode_instruction(word, pc), the decoder of  *)
(* a 32-bit MIPS instruction word into a DecodedInstr(type, args).          *)
(*                                                                         *)
(* Python integers are unbounded, and a 32-bit word or address does not fit *)
(* the model checker's integers, so an integer of the program is held as   *)
(* two limbs in base 2^16: [hi, lo] stands for hi * 2^16 + lo, with         *)
(* lo in 0..65535 and hi any integer (negative for a negative number, above *)
(* 65535 for a number of 2^32 or more).  The operators WAdd, WAnd, WOr,      *)
(* WShr and WShl are Python's +, &, |, >> and << on that representation.    *)
(***************************************************************************)
EXTENDS Integers, Sequences, FiniteSets, TLC

VARIABLES word, pc, result, phase

vars == <<word, pc, result, phase>>

(***************************************************************************)
(* Bounds of the sampled inputs.                                           *)
(***************************************************************************)
\* register fields are drawn from 0..MaxReg and 31
MaxReg == 2
\* immediates are drawn from within MaxImm of 0, of the sign boundary and of 0xFFFF
MaxImm == 4

(***************************************************************************)
(* Python's int, as two limbs.                                             *)
(***************************************************************************)
Wide(hi, lo) == [hi |-> hi, lo |-> lo]

\* a small integer literal or value as a Python int
ToWide(n) == Wide(n \div 65536, n % 65536)

\* the value of a Python int that is known to be small
ToInt(w) == w.hi * 65536 + w.lo

RECURSIVE BitAnd(_, _)
\* a & b on non-negative limbs, bit by bit
BitAnd(a, b) ==
    IF a = 0 \/ b = 0 THEN 0
    ELSE (a % 2) * (b % 2) + 2 * BitAnd(a \div 2, b \div 2)

RECURSIVE BitOr(_, _)
\* a | b on non-negative limbs, bit by bit
BitOr(a, b) ==
    IF a = 0 THEN b
    ELSE IF b = 0 THEN a
    ELSE ((a % 2) + (b % 2) - (a % 2) * (b % 2)) + 2 * BitOr(a \div 2, b \div 2)

\* a & b (both non-negative)
WAnd(a, b) == Wide(BitAnd(a.hi, b.hi), BitAnd(a.lo, b.lo))

\* a | b (both non-negative)
WOr(a, b) == Wide(BitOr(a.hi, b.hi), BitOr(a.lo, b.lo))

\* a + b
WAdd(a, b) ==
    LET s == a.lo + b.lo
    IN  Wide(a.hi + b.hi + (s \div 65536), s % 65536)

\* a >> n, 0 <= n < 32
WShr(a, n) ==
    IF n >= 16
    THEN ToWide(a.hi \div (2 ^ (n - 16)))
    ELSE Wide(a.hi \div (2 ^ n),
              (a.hi % (2 ^ n)) * (2 ^ (16 - n)) + (a.lo \div (2 ^ n)))

\* a << n, 0 <= n < 16
WShl(a, n) ==
    LET s == a.lo * (2 ^ n)
    IN  Wide(a.hi * (2 ^ n) + (s \div 65536), s % 65536)

(***************************************************************************)
(* The result type.                                                        *)
(***************************************************************************)
DecodedInstr(type, args) == [type |-> type, args |-> args]

\* Python's None, the absent second register of BLEZ and BGTZ
None == "None"

(***************************************************************************)
(* Field extraction.                                                       *)
(***************************************************************************)
\* faulty variant: the opcode masked with the 5-bit register mask 0x1F
op_field_mask5(w) == ToInt(WAnd(WShr(w, 26), ToWide(31)))

\* op = (word >> 26) & 0x3F
op_field(w) == ToInt(WAnd(WShr(w, 26), ToWide(63)))

\* rs = (word >> 21) & 0x1F
rs_field(w) == ToInt(WAnd(WShr(w, 21), ToWide(31)))

\* rt = (word >> 16) & 0x1F
rt_field(w) == ToInt(WAnd(WShr(w, 16), ToWide(31)))

\* faulty variant: rd read at the position of rt
rd_field_at16(w) == ToInt(WAnd(WShr(w, 16), ToWide(31)))

\* rd = (word >> 11) & 0x1F
rd_field(w) == ToInt(WAnd(WShr(w, 11), ToWide(31)))

\* shamt = (word >> 6) & 0x1F
shamt_field(w) == ToInt(WAnd(WShr(w, 6), ToWide(31)))

\* faulty variant: funct masked with the 5-bit register mask 0x1F
funct_field_mask5(w) == ToInt(WAnd(w, ToWide(31)))

\* funct = word & 0x3F
funct_field(w) == ToInt(WAnd(w, ToWide(63)))

\* imm = word & 0xFFFF
imm_field(w) == ToInt(WAnd(w, ToWide(65535)))

\* target = word & 0x03FFFFFF
target_field(w) == WAnd(w, Wide(1023, 65535))

\* faulty variant: the sign boundary off by one (imm <= 0x8000)
imm_signed_of_le(imm) == IF imm <= 32768 THEN imm ELSE imm - 65536

\* faulty variant: no sign extension at all
imm_signed_of_zext(imm) == imm

\* imm_signed = imm if imm < 0x8000 else imm - 0x10000
imm_signed_of(imm) == IF imm < 32768 THEN imm ELSE imm - 65536

\* faulty variant: the shift amount is not looked at
is_nop_no_shamt(rs, rt, rd, shamt) == rs = 0 /\ rt = 0 /\ rd = 0

\* rs == 0 and rt == 0 and rd == 0 and shamt == 0
is_nop(rs, rt, rd, shamt) == rs = 0 /\ rt = 0 /\ rd = 0 /\ shamt = 0

\* faulty variant: the segment taken from pc itself, as the source comment words it
jump_target_addr_pc(p, target) ==
    WOr(WAnd(p, Wide(61440, 0)), WShl(target, 2))

\* target_addr = ((pc + 4) & 0xF0000000) | (target << 2)
jump_target_addr(p, target) ==
    WOr(WAnd(WAdd(p, ToWide(4)), Wide(61440, 0)), WShl(target, 2))

\* faulty variant: the offset taken from pc, not from the next instruction
branch_target_addr_pc(p, imm_signed) ==
    WAdd(p, ToWide(imm_signed * 4))

\* target_addr = pc + 4 + (imm_signed << 2)
branch_target_addr(p, imm_signed) ==
    WAdd(WAdd(p, ToWide(4)), ToWide(imm_signed * 4))

(***************************************************************************)
(* decode_instruction, one operator per encoding family.                   *)
(***************************************************************************)
\* R-type: opcode 0, the funct field selects the operation
decode_special(w) ==
    LET rs    == rs_field(w)
        rt    == rt_field(w)
        rd    == rd_field(w)
        shamt == shamt_field(w)
        funct == funct_field(w)
    IN  IF funct \in {32, 33} THEN DecodedInstr("arith", <<"ADD", rd, rs, rt>>)
        ELSE IF funct \in {34, 35} THEN DecodedInstr("arith", <<"SUB", rd, rs, rt>>)
        ELSE IF funct = 36 THEN DecodedInstr("arith", <<"AND", rd, rs, rt>>)
        ELSE IF funct = 37 THEN DecodedInstr("arith", <<"OR", rd, rs, rt>>)
        ELSE IF funct = 38 THEN DecodedInstr("arith", <<"XOR", rd, rs, rt>>)
        ELSE IF funct = 39 THEN DecodedInstr("arith", <<"NOR", rd, rs, rt>>)
        ELSE IF funct = 42 THEN DecodedInstr("arith", <<"SLT", rd, rs, rt>>)
        ELSE IF funct = 43 THEN DecodedInstr("arith", <<"SLTU", rd, rs, rt>>)
        ELSE IF funct = 0 THEN
            IF is_nop(rs, rt, rd, shamt)
            THEN DecodedInstr("nop", <<>>)
            ELSE DecodedInstr("shift", <<"SLL", rd, rt, shamt>>)
        ELSE IF funct = 2 THEN DecodedInstr("shift", <<"SRL", rd, rt, shamt>>)
        ELSE IF funct = 3 THEN DecodedInstr("shift", <<"SRA", rd, rt, shamt>>)
        ELSE IF funct = 8 THEN DecodedInstr("jr", <<rs>>)
        ELSE IF funct = 9 THEN DecodedInstr("jalr", <<rd, rs>>)
        ELSE IF funct = 16 THEN DecodedInstr("mfhi", <<rd>>)
        ELSE IF funct = 18 THEN DecodedInstr("mflo", <<rd>>)
        ELSE IF funct = 17 THEN DecodedInstr("mthi", <<rs>>)
        ELSE IF funct = 19 THEN DecodedInstr("mtlo", <<rs>>)
        ELSE IF funct = 24 THEN DecodedInstr("mult", <<rs, rt>>)
        ELSE IF funct = 25 THEN DecodedInstr("multu", <<rs, rt>>)
        ELSE IF funct = 26 THEN DecodedInstr("div", <<rs, rt>>)
        ELSE IF funct = 27 THEN DecodedInstr("divu", <<rs, rt>>)
        ELSE DecodedInstr("unknown", <<"SPECIAL", funct, rs, rt, rd, shamt>>)

\* faulty variant: the link flag of J and JAL exchanged
decode_jump_swapped(w, p, op) ==
    LET target      == target_field(w)
        target_addr == jump_target_addr(p, target)
    IN  IF op = 2
        THEN DecodedInstr("jump", <<target_addr, TRUE>>)
        ELSE DecodedInstr("jump", <<target_addr, FALSE>>)

\* J-type: J (0x02) or JAL (0x03)
decode_jump(w, p, op) ==
    LET target      == target_field(w)
        target_addr == jump_target_addr(p, target)
    IN  IF op = 2
        THEN DecodedInstr("jump", <<target_addr, FALSE>>)
        ELSE DecodedInstr("jump", <<target_addr, TRUE>>)

\* I-type: every other opcode
decode_immediate(w, p, op) ==
    LET rs         == rs_field(w)
        rt         == rt_field(w)
        imm        == imm_field(w)
        imm_signed == imm_signed_of(imm)
    IN  IF op = 4 THEN
            DecodedInstr("branch", <<"BEQ", rs, rt, branch_target_addr(p, imm_signed)>>)
        ELSE IF op = 5 THEN
            DecodedInstr("branch", <<"BNE", rs, rt, branch_target_addr(p, imm_signed)>>)
        ELSE IF op = 6 THEN
            DecodedInstr("branch", <<"BLEZ", rs, None, branch_target_addr(p, imm_signed)>>)
        ELSE IF op = 7 THEN
            DecodedInstr("branch", <<"BGTZ", rs, None, branch_target_addr(p, imm_signed)>>)
        ELSE IF op = 8 \/ op = 9 THEN DecodedInstr("imm", <<"ADD", rt, rs, imm_signed>>)
        ELSE IF op = 10 \/ op = 11 THEN
            LET cmp_type == IF op = 10 THEN "SLT" ELSE "SLTU"
            IN  DecodedInstr("imm", <<cmp_type, rt, rs, imm_signed>>)
        ELSE IF op = 12 THEN DecodedInstr("imm", <<"AND", rt, rs, imm>>)
        ELSE IF op = 13 THEN DecodedInstr("imm", <<"OR", rt, rs, imm>>)
        ELSE IF op = 14 THEN DecodedInstr("imm", <<"XOR", rt, rs, imm>>)
        ELSE IF op = 15 THEN DecodedInstr("lui", <<rt, imm>>)
        ELSE IF op = 32 THEN DecodedInstr("load", <<"BYTE_S", rt, rs, imm_signed>>)
        ELSE IF op = 36 THEN DecodedInstr("load", <<"BYTE_U", rt, rs, imm_signed>>)
        ELSE IF op = 33 THEN DecodedInstr("load", <<"HALF_S", rt, rs, imm_signed>>)
        ELSE IF op = 37 THEN DecodedInstr("load", <<"HALF_U", rt, rs, imm_signed>>)
        ELSE IF op = 35 THEN DecodedInstr("load", <<"WORD", rt, rs, imm_signed>>)
        ELSE IF op = 40 THEN DecodedInstr("store", <<"BYTE", rt, rs, imm_signed>>)
        ELSE IF op = 41 THEN DecodedInstr("store", <<"HALF", rt, rs, imm_signed>>)
        ELSE IF op = 43 THEN DecodedInstr("store", <<"WORD", rt, rs, imm_signed>>)
        ELSE DecodedInstr("unknown", <<"OP", op, rs, rt, imm_signed>>)

decode_instruction(w, p) ==
    LET op == op_field(w)
    IN  IF op = 0 THEN decode_special(w)
        ELSE IF op = 2 \/ op = 3 THEN decode_jump(w, p, op)
        ELSE decode_immediate(w, p, op)

(***************************************************************************)
(* The inputs: 32-bit words assembled from sampled fields, and addresses   *)
(* around the places where the target arithmetic changes segment or wraps. *)
(***************************************************************************)
RegSamples == (0 .. MaxReg) \cup {31}

ImmSamples ==
    (0 .. MaxImm) \cup {16}
        \cup ((32768 - MaxImm) .. (32767 + MaxImm))
        \cup ((65535 - MaxImm) .. 65535)

\* register-form words: opcode 0, every funct
SpecialWords ==
    { Wide(rs * 32 + rt, rd * 2048 + shamt * 64 + funct) :
        rs \in RegSamples, rt \in RegSamples, rd \in RegSamples,
        shamt \in RegSamples, funct \in 0 .. 63 }

\* jump- and immediate-form words: every non-zero opcode
OtherWords ==
    { Wide(op * 1024 + rs * 32 + rt, imm) :
        op \in 1 .. 63, rs \in RegSamples, rt \in RegSamples, imm \in ImmSamples }

WordSamples == SpecialWords \cup OtherWords

\* 0x00000000, 0x00001000, 0x0FFFFFFC, 0x10000000, 0x7FFFFFFD, 0xFFFFFFFC
PcSamples ==
    { Wide(0, 0), Wide(0, 4096), Wide(4095, 65532), Wide(4096, 0),
      Wide(32767, 65533), Wide(65535, 65532) }

\* the state before the call: no result yet
NoResult == DecodedInstr("pending", <<>>)

Init ==
    /\ word \in WordSamples
    /\ pc \in PcSamples
    /\ result = NoResult
    /\ phase = "ready"

\* one call of decode_instruction(word, pc)
Decode ==
    /\ phase = "ready"
    /\ result' = decode_instruction(word, pc)
    /\ phase' = "done"
    /\ UNCHANGED <<word, pc>>

Next == Decode

Spec == Init /\ [][Next]_vars

(***************************************************************************)
(* Reference values for the properties: the bit fields of a word and the   *)
(* two extensions of a 16-bit field, by integer arithmetic on the limbs.   *)
(***************************************************************************)
OpBits(w) == w.hi \div 1024

RsBits(w) == (w.hi \div 32) % 32

RtBits(w) == w.hi % 32

RdBits(w) == w.lo \div 2048

ShamtBits(w) == (w.lo \div 64) % 32

FunctBits(w) == w.lo % 64

ImmBits(w) == w.lo

\* the 16-bit two's-complement reading of a field
SignExt(f) == ((f + 32768) % 65536) - 32768

Types ==
    { "arith", "imm", "shift", "load", "store", "branch", "jump", "jr", "jalr",
      "mfhi", "mflo", "mthi", "mtlo", "mult", "multu", "div", "divu", "lui",
      "nop", "unknown" }

\* the funct values of the register-form table
KnownFuncts == { 0, 2, 3, 8, 9, 16, 17, 18, 19, 24, 25, 26, 27, 32, 33, 34, 35, 36, 37, 38, 39, 42, 43 }

JumpOps == { 2, 3 }

BranchOps == { 4, 5, 6, 7 }

LoadStoreOps == { 32, 33, 35, 36, 37, 40, 41, 43 }

\* the recognized immediate-form opcodes
KnownImmOps == BranchOps \cup (8 .. 15) \cup LoadStoreOps

Recognized(w) ==
    IF OpBits(w) = 0 THEN FunctBits(w) \in KnownFuncts
    ELSE OpBits(w) \in JumpOps \cup KnownImmOps

InRange32(a) == a.hi \in 0 .. 65535 /\ a.lo \in 0 .. 65535

Done == phase = "done"

(***************************************************************************)
(* C1                                                                      *)
(***************************************************************************)
\* C1: decode_instruction is total: for every word and address the call
\* returns a DecodedInstr whose type is one of the twenty fixed tags, and a
\* word that matches no known funct/opcode decodes to 'unknown'.
C1_Total ==
    Done =>
        /\ DOMAIN result = { "type", "args" }
        /\ result.type \in Types
        /\ ~Recognized(word) => result.type = "unknown"

C1_Witness ==
    /\ Done
    /\ OpBits(word) = 34
    /\ result.type = "unknown"

(***************************************************************************)
(* C2, C3                                                                  *)
(***************************************************************************)
\* ((pc + 4) & 0xF0000000) | ((word & 0x03FFFFFF) << 2), arithmetically
JumpTargetOf(w, p) ==
    LET nexthi  == p.hi + ((p.lo + 4) \div 65536)
        seg     == (nexthi \div 4096) % 16
        shifted == ((w.hi % 1024) * 65536 + w.lo) * 4
    IN  Wide(seg * 4096 + (shifted \div 65536), shifted % 65536)

BranchTargetOf(w, p) ==
    LET sum == p.lo + 4 + SignExt(ImmBits(w)) * 4
    IN  Wide(p.hi + (sum \div 65536), sum % 65536)

BranchName(op) ==
    IF op = 4 THEN "BEQ" ELSE IF op = 5 THEN "BNE" ELSE IF op = 6 THEN "BLEZ" ELSE "BGTZ"

\* C4: every word with opcode 0x04..0x07 decodes to 'branch' with target
\* pc + 4 + (s << 2), s the sign-extended immediate; BEQ/BNE carry (rs, rt),
\* BLEZ/BGTZ carry rs and None; BEQ rs=1 rt=2 imm=4 at 0x1000 targets 0x1014.
C4_Branch ==
    /\ (Done /\ OpBits(word) \in BranchOps) =>
        /\ result.type = "branch"
        /\ Len(result.args) = 4
        /\ result.args[1] = BranchName(OpBits(word))
        /\ result.args[2] = RsBits(word)
        /\ result.args[3] = (IF OpBits(word) \in {4, 5} THEN RtBits(word) ELSE None)
        /\ result.args[4] = BranchTargetOf(word, pc)
    /\ (Done /\ word = Wide(4130, 4) /\ pc = Wide(0, 4096)) =>
        /\ result.type = "branch"
        /\ result.args = <<"BEQ", 1, 2, Wide(0, 4116)>>

\* the BEQ example of the claim
C4_Witness ==
    /\ Done
    /\ word = Wide(4130, 4)
    /\ pc = Wide(0, 4096)
    /\ result.type = "branch"
    /\ result.args[4] = Wide(0, 4116)

(***************************************************************************)
(* C5                                                                      *)
(***************************************************************************)
\* C5: the all-zero word decodes to 'nop' with empty args at every pc, every
\* other word with opcode 0 and funct 0 decodes to shift ('SLL', rd, rt,
\* shamt), and a word decodes to 'nop' if and only if it is 0.
C5_Nop ==
    Done =>
        /\ (word = Wide(0, 0)) => result = DecodedInstr("nop", <<>>)
        /\ (result.type = "nop") => word = Wide(0, 0)
        /\ (OpBits(word) = 0 /\ FunctBits(word) = 0 /\ word # Wide(0, 0)) =>
            /\ result.type = "shift"
            /\ result.args = <<"SLL", RdBits(word), RtBits(word), ShamtBits(word)>>

\* SLL $0, $0, 1: only the shift amount is non-zero
C5_Witness ==
    /\ Done
    /\ word = Wide(0, 64)
    /\ result.type = "shift"
    /\ result.args = <<"SLL", 0, 0, 1>>

(***************************************************************************)
(* C6                                                                      *)
(***************************************************************************)
\* C6: the constant of ADDI/ADDIU/SLTI/SLTIU is the sign-extended immediate,
\* in -32768..32767 and congruent to bits 15-0 modulo 2^16; the constant of
\* ANDI/ORI/XORI and of LUI is the raw field, in 0..65535, LUI's unshifted.
C6_Extension ==
    /\ (Done /\ OpBits(word) \in 8 .. 11) =>
        /\ result.type = "imm"
        /\ Len(result.args) = 4
        /\ result.args[4] \in -32768 .. 32767
        /\ (result.args[4] - ImmBits(word)) % 65536 = 0
    /\ (Done /\ OpBits(word) \in 12 .. 14) =>
        /\ result.type = "imm"
        /\ Len(result.args) = 4
        /\ result.args[4] \in 0 .. 65535
        /\ result.args[4] = ImmBits(word)
    /\ (Done /\ OpBits(word) = 15) =>
        /\ result.type = "lui"
        /\ Len(result.args) = 2
        /\ result.args[2] \in 0 .. 65535
        /\ result.args[2] = ImmBits(word)

\* SLTIU with immediate 0x8000: the constant is -32768
C6_Witness ==
    /\ Done
    /\ OpBits(word) = 11
    /\ ImmBits(word) = 32768
    /\ result.type = "imm"
    /\ result.args[1] = "SLTU"
    /\ result.args[4] = -32768

(***************************************************************************)
(* C7                                                                      *)
(***************************************************************************)
\* the register fields of an 'arith', 'shift' or 'imm' result are the bits
RegistersRoundTrip ==
    /\ result.type = "arith" =>
        /\ Len(result.args) = 4
        /\ result.args[2] = RdBits(word)
        /\ result.args[3] = RsBits(word)
        /\ result.args[4] = RtBits(word)
    /\ result.type = "shift" =>
        /\ Len(result.args) = 4
        /\ result.args[2] = RdBits(word)
        /\ result.args[3] = RtBits(word)
        /\ result.args[4] = ShamtBits(word)
    /\ result.type = "imm" =>
        /\ Len(result.args) = 4
        /\ result.args[2] = RtBits(word)
        /\ result.args[3] = RsBits(word)

\* C7 as stated: for every word that decodes to 'arith', 'shift' or 'imm' the
\* register fields, the shift amount and the constant of the output equal the
\* bit-extracted values of the word, the constant being bits 15-0.
C7_RoundTrip_Stated ==
    Done =>
        /\ RegistersRoundTrip
        /\ result.type = "imm" => result.args[4] = ImmBits(word)

\* C7, amended: for every word that decodes to 'arith', 'shift' or 'imm' the
\* register fields and the shift amount equal the bit-extracted values; the
\* constant equals bits 15-0 for AND/OR/XOR and whenever bit 15 is clear, and
\* is bits 15-0 minus 0x10000 for ADD/SLT/SLTU with bit 15 set.
C7_RoundTrip ==
    Done =>
        /\ RegistersRoundTrip
        /\ result.type = "imm" =>
            /\ result.args[1] \in { "ADD", "SLT", "SLTU", "AND", "OR", "XOR" }
            /\ result.args[4] =
                (IF result.args[1] \in { "ADD", "SLT", "SLTU" } /\ ImmBits(word) >= 32768
                 THEN ImmBits(word) - 65536
                 ELSE ImmBits(word))

\* ADDI with immediate 0xFFFF: the constant is -1, the register fields the bits
C7_Witness ==
    /\ Done
    /\ OpBits(word) = 8
    /\ ImmBits(word) = 65535
    /\ result.type = "imm"
    /\ result.args = <<"ADD", RtBits(word), RsBits(word), -1>>

(***************************************************************************)
(* C8                                                                      *)
(***************************************************************************)
\* the (category, tag) of each load/store opcode
LoadStoreKind(op) ==
    IF op = 32 THEN <<"load", "BYTE_S">>
    ELSE IF op = 33 THEN <<"load", "HALF_S">>
    ELSE IF op = 35 THEN <<"load", "WORD">>
    ELSE IF op = 36 THEN <<"load", "BYTE_U">>
    ELSE IF op = 37 THEN <<"load", "HALF_U">>
    ELSE IF op = 40 THEN <<"store", "BYTE">>
    ELSE IF op = 41 THEN <<"store", "HALF">>
    ELSE <<"store", "WORD">>

\* C8: the opcodes LB, LH, LW, LBU, LHU, SB, SH, SW decode to eight pairwise
\* distinct (category, tag) pairs, each with args (tag, rt, rs, sign-extended
\* offset); a store never carries a signedness tag, and no other opcode
\* decodes to 'load' or 'store'.
C8_LoadStore ==
    Done =>
        /\ OpBits(word) \in LoadStoreOps =>
            /\ result.type = LoadStoreKind(OpBits(word))[1]
            /\ result.args =
                <<LoadStoreKind(OpBits(word))[2], RtBits(word), RsBits(word),
                  SignExt(ImmBits(word))>>
            /\ \A other \in LoadStoreOps \ { OpBits(word) } :
                <<result.type, result.args[1]>> # LoadStoreKind(other)
        /\ result.type = "store" => result.args[1] \in { "BYTE", "HALF", "WORD" }
        /\ result.type \in { "load", "store" } => OpBits(word) \in LoadStoreOps

\* LBU with a negative offset
C8_Witness ==
    /\ Done
    /\ OpBits(word) = 36
    /\ ImmBits(word) = 65535
    /\ result.type = "load"
    /\ result.args[1] = "BYTE_U"
    /\ result.args[4] = -1

(***************************************************************************)
(* C9                                                                      *)
(***************************************************************************)
\* C9: a word with a non-zero, non-jump opcode outside the recognized set
\* decodes to 'unknown' echoing opcode, rs, rt and the sign-extended
\* immediate; a word with opcode 0 and a funct outside the table decodes to
\* 'unknown' echoing funct, rs, rt, rd, shamt; a recognized word never
\* decodes to 'unknown'.
C9_Unknown ==
    Done =>
        /\ (OpBits(word) # 0 /\ ~Recognized(word)) =>
            /\ result.type = "unknown"
            /\ result.args =
                <<"OP", OpBits(word), RsBits(word), RtBits(word), SignExt(ImmBits(word))>>
        /\ (OpBits(word) = 0 /\ ~Recognized(word)) =>
            /\ result.type = "unknown"
            /\ result.args =
                <<"SPECIAL", FunctBits(word), RsBits(word), RtBits(word),
                  RdBits(word), ShamtBits(word)>>
        /\ Recognized(word) => result.type # "unknown"

\* a register-form word with the unlisted funct 0x28
C9_Witness ==
    /\ Done
    /\ OpBits(word) = 0
    /\ FunctBits(word) = 40
    /\ result.type = "unknown"
    /\ result.args[1] = "SPECIAL"
    /\ result.args[2] = 40

(***************************************************************************)
(* C10                                                                     *)
(***************************************************************************)
\* C10: every target address the decoder produces is an unsigned 32-bit
\* address: the target of a 'jump' and of a 'branch' result lies in 0..2^32-1.
C10_TargetInRange ==
    Done =>
        /\ result.type = "jump" => InRange32(result.args[1])
        /\ result.type = "branch" => InRange32(result.args[4])

====
